---- MODULE Spec2Model ----
(***************************************************************************)
(* Model of the Resident Advisor events front-end: src/app.py (the Flask  *)
(* handler, the upstream client, the SQLite store, the snapshot files)    *)
(* and src/templates/data_manager.py (the combined archive).              *)
(*                                                                         *)
(* Python values are tagged records, so that None, a string, a list and a *)
(* dict are different values and "key absent" differs from "key: null".   *)
(* Python strings are TLA+ strings (TLC treats them as sequences of       *)
(* characters: Len, Head, Tail and \o work on them).                      *)
(***************************************************************************)
EXTENDS Integers, Sequences, FiniteSets, TLC

VARIABLES
    pc,        \* position of the POST /get_events request being handled
    req,       \* request.form of that request: [city, date]
    area,      \* summary of the area-search response fetch_city_id received
    city_id,   \* fetch_events' local city_id (fetch_city_id's return, then the int)
    ret,       \* what fetch_events returned to the handler (or the exception raised)
    page,      \* the HTTP response of the request
    log,       \* outward effects of the request so far, in order
    db,        \* events.db: the rows of table events
    files,     \* ./stored_data: path -> JSON document
    archive,   \* ./data/events_data.json: <<>> when the file does not exist, else <<doc>>
    call,      \* the last direct call of a persistence function: its arguments and result
    written    \* history: event id -> the event dict most recently passed to save_events_to_db

vars == <<pc, req, area, city_id, ret, page, log, db, files, archive, call, written>>

-----------------------------------------------------------------------------
(* Bounds of the model                                                     *)

MaxEvents == 2

MaxArtists == 2

MaxResults == 2

-----------------------------------------------------------------------------
(* Python values                                                           *)

None == [t |-> "None"]

Str(s) == [t |-> "str", v |-> s]

PyInt(n) == [t |-> "int", v |-> n]

List(q) == [t |-> "list", v |-> q]

Dict(f) == [t |-> "dict", v |-> f]

Raise(e) == [t |-> "raise", exc |-> e]

IsRaise(x) == x.t = "raise"

\* A marker used only to build dicts some of whose keys are absent.
Absent == [t |-> "absent"]

\* The dict holding the fields of record r that are not Absent.
MkDict(r) == Dict([k \in {j \in DOMAIN r : r[j] # Absent} |-> r[k]])

\* bool(x)
Truthy(x) ==
    CASE x.t = "None" -> FALSE
      [] x.t = "str"  -> x.v # ""
      [] x.t = "int"  -> x.v # 0
      [] x.t = "list" -> x.v # <<>>
      [] x.t = "dict" -> DOMAIN x.v # {}
      [] OTHER        -> TRUE

\* d.get(k, default); d.get on a non-dict raises AttributeError
Get(d, k, default) ==
    IF d.t # "dict" THEN Raise("AttributeError")
    ELSE IF k \in DOMAIN d.v THEN d.v[k] ELSE default

\* All sequences over S of length at most n
SeqsUpTo(S, n) == UNION {[1..k -> S] : k \in 0..n}

-----------------------------------------------------------------------------
(* The upstream API (requests.post to RA_GRAPHQL_URL): what it may answer  *)

HTTP_OK == 200

\* Statuses other than 200 the upstream may answer with.
ErrorStatuses == {404, 500}

\* Identifiers the area search may carry: integer literals as Python's int()
\* reads them (digits, surrounding blanks, a sign, single underscores) and
\* texts that are none.
AreaIds == {"34", " +3_4 ", "3__4", ""}

AreaResults == {Dict([id |-> Str(i), value |-> Str("Berlin")]) : i \in AreaIds}

\* JSON bodies of an area-search answer: no "data", "data": null, a data
\* object without "search", with "search": null, or with a list of results.
SearchBodies ==
    {Dict(<<>>), Dict([data |-> None]), Dict([data |-> Dict(<<>>)]),
     Dict([data |-> Dict([search |-> None])])}
    \cup {Dict([data |-> Dict([search |-> List(q)])]) :
             q \in SeqsUpTo(AreaResults, MaxResults)}

\* A non-200 answer is modelled with two bodies: one without "data" and one
\* that lists a result all the same.
SearchResponses ==
    [status : {HTTP_OK}, body : SearchBodies]
    \cup [status : ErrorStatuses,
          body : {Dict(<<>>),
                  Dict([data |-> Dict([search |-> List(<<Dict([id |-> Str("34"), value |-> Str("Berlin")])>>)])])}]

-----------------------------------------------------------------------------
(* int(city_id)                                                            *)

DigitChars == "0123456789"

IsDigit(c) == \E i \in 1..10 : SubSeq(DigitChars, i, i) = c

DigitVal(c) == (CHOOSE i \in 1..10 : SubSeq(DigitChars, i, i) = c) - 1

RECURSIVE LStrip(_)
LStrip(s) == IF s # "" /\ Head(s) = " " THEN LStrip(Tail(s)) ELSE s

RECURSIVE RStrip(_)
RStrip(s) ==
    IF s # "" /\ SubSeq(s, Len(s), Len(s)) = " "
    THEN RStrip(SubSeq(s, 1, Len(s) - 1)) ELSE s

\* The digits of an integer literal, from the left: acc is the value read so
\* far, prev says whether the preceding character was a digit. An underscore
\* is accepted only between two digits. -1 when s is no literal.
RECURSIVE ParseDigits(_, _, _)
ParseDigits(s, acc, prev) ==
    IF s = "" THEN (IF prev THEN acc ELSE -1)
    ELSE IF IsDigit(Head(s)) THEN ParseDigits(Tail(s), acc * 10 + DigitVal(Head(s)), TRUE)
    ELSE IF Head(s) = "_" /\ prev /\ Tail(s) # "" /\ IsDigit(Head(Tail(s)))
         THEN ParseDigits(Tail(s), acc, FALSE)
    ELSE -1

\* int(x) for a str x: the integer, or ValueError; TypeError for None.
IntOf(x) ==
    IF x.t = "int" THEN x
    ELSE IF x.t # "str" THEN Raise("TypeError")
    ELSE LET s    == RStrip(LStrip(x.v))
             neg  == s # "" /\ Head(s) = "-"
             body == IF s # "" /\ Head(s) \in {"+", "-"} THEN Tail(s) ELSE s
             n    == ParseDigits(body, 0, FALSE)
         IN  IF n < 0 THEN Raise("ValueError")
             ELSE PyInt(IF neg THEN 0 - n ELSE n)

-----------------------------------------------------------------------------
(* fetch_city_id                                                           *)

\* fetch_city_id without the check of response.status_code
FetchCityIdAnyStatus(resp) ==
    LET locations == Get(Get(resp.body, "data", Dict(<<>>)), "search", List(<<>>))
    IN  IF IsRaise(locations) THEN locations
        ELSE IF Truthy(locations) THEN locations.v[1].v["id"]
        ELSE None

\* fetch_city_id taking locations[-1] for locations[0]
FetchCityIdLast(resp) ==
    IF resp.status = HTTP_OK
    THEN LET locations == Get(Get(resp.body, "data", Dict(<<>>)), "search", List(<<>>))
         IN  IF IsRaise(locations) THEN locations
             ELSE IF Truthy(locations) THEN locations.v[Len(locations.v)].v["id"]
             ELSE None
    ELSE None

\* The value fetch_city_id returns for the area-search answer resp, or the
\* exception it raises.
FetchCityId(resp) ==
    IF resp.status = HTTP_OK
    THEN LET data      == resp.body
             locations == Get(Get(data, "data", Dict(<<>>)), "search", List(<<>>))
         IN  IF IsRaise(locations) THEN locations
             ELSE IF Truthy(locations) THEN locations.v[1].v["id"]
             ELSE None
    ELSE None

-----------------------------------------------------------------------------
(* The event-listing answer                                                *)

RA_ORIGIN == "https://ra.co"

ArtistNames == <<"a1", "a2", "a3", "a4">>

ArtistObject(i) == Dict([id |-> Str("9"), name |-> Str(ArtistNames[i])])

\* The upstream artists lists: the first k artists, k up to MaxArtists.
ArtistLists == {List([i \in 1..k |-> ArtistObject(i)]) : k \in 0..MaxArtists}

VenueObject(name, url) == MkDict([id |-> Str("5"), name |-> name, contentUrl |-> url])

EventObject(id, title, date, url, flyer, venue, artists) ==
    MkDict([id |-> id, title |-> title, date |-> date, contentUrl |-> url,
            flyerFront |-> flyer, venue |-> venue, artists |-> artists])

ListingItem(event) == MkDict([id |-> Str("77"), listingDate |-> Str("2024-05-01"), event |-> event])

\* Items of the listings the request handler is run against: complete events
\* (two ids, one of them under two titles), an item without "event", and an
\* event whose venue is null.
FullEvent(id, title) ==
    EventObject(Str(id), Str(title), Str("2024-05-01T00:00"), Str("/events/" \o id),
                Str("/flyer.jpg"), VenueObject(Str("v1"), Str("/clubs/1")),
                List([i \in 1..2 |-> ArtistObject(i)]))

ListingItems ==
    {ListingItem(FullEvent(e[1], e[2])) : e \in {<<"e1", "t1">>, <<"e1", "t2">>, <<"e2", "t1">>}}
    \cup {ListingItem(Absent),
          ListingItem(EventObject(Str("e1"), Str("t1"), Absent, Absent, Absent, None, Absent))}

\* JSON bodies of an event-listing answer.
ListingBodies ==
    {List(<<>>), Dict(<<>>), Dict([data |-> None]), Dict([data |-> Dict(<<>>)]),
     Dict([data |-> Dict([eventListings |-> None])]),
     Dict([data |-> Dict([eventListings |-> Dict(<<>>)])]),
     Dict([data |-> Dict([eventListings |-> Dict([data |-> None])])])}
    \cup {Dict([data |-> Dict([eventListings |-> Dict([data |-> List(q)])])]) :
             q \in SeqsUpTo(ListingItems, MaxEvents)}

\* A non-200 answer is modelled with two bodies: one without "data" and one
\* that lists an event all the same.
ListingResponses ==
    [status : {HTTP_OK}, body : ListingBodies]
    \cup [status : ErrorStatuses,
          body : {Dict(<<>>),
                  Dict([data |-> Dict([eventListings |->
                      Dict([data |-> List(<<ListingItem(FullEvent("e1", "t1"))>>)])])])}]

-----------------------------------------------------------------------------
(* fetch_events: normalization of one item                                 *)

\* f"https://ra.co{x}" if x else None, for x = obj.get("contentUrl")
ContentUrl(obj) ==
    LET x == Get(obj, "contentUrl", None)
    IN  IF Truthy(x) THEN Str(RA_ORIGIN \o x.v) ELSE None

\* event_info built from one item of the listing, or the exception raised:
\* event.get / venue.get on None raise AttributeError, iterating a null
\* "artists" raises TypeError.
NormalizeItem(item) ==
    LET event == Get(item, "event", Dict(<<>>))
    IN  IF event.t # "dict" THEN Raise("AttributeError")
        ELSE LET venue == Get(event, "venue", Dict(<<>>))
             IN  IF venue.t # "dict" THEN Raise("AttributeError")
                 ELSE IF "artists" \in DOMAIN event.v /\ event.v["artists"].t # "list"
                      THEN Raise("TypeError")
                 ELSE LET as == Get(event, "artists", List(<<>>)).v
                      IN  Dict([event_id  |-> Get(event, "id", Str("Unknown")),
                                title     |-> Get(event, "title", Str("No Title")),
                                date      |-> Get(event, "date", Str("No Date")),
                                event_url |-> ContentUrl(event),
                                flyer     |-> Get(event, "flyerFront", None),
                                venue     |-> Dict([name |-> Get(venue, "name", Str("Unknown")),
                                                    url  |-> ContentUrl(venue)]),
                                artists   |-> List([i \in 1..Len(as) |-> as[i].v["name"]])])

\* events_list after the loop over event_listings, or the first exception.
RECURSIVE NormalizeAll(_)
NormalizeAll(items) ==
    IF items = <<>> THEN List(<<>>)
    ELSE LET e == NormalizeItem(Head(items))
         IN  IF IsRaise(e) THEN e
             ELSE LET rest == NormalizeAll(Tail(items))
                  IN  IF IsRaise(rest) THEN rest ELSE List(<<e>> \o rest.v)

\* data.get("data", {}).get("eventListings", {}).get("data", [])
EventListings(data) ==
    LET d1 == Get(data, "data", Dict(<<>>))
        d2 == IF IsRaise(d1) THEN d1 ELSE Get(d1, "eventListings", Dict(<<>>))
        d3 == IF IsRaise(d2) THEN d2 ELSE Get(d2, "data", List(<<>>))
    IN  IF IsRaise(d3) THEN d3
        ELSE IF d3.t # "list" THEN Raise("TypeError")
        ELSE d3

-----------------------------------------------------------------------------
(* JSON documents: json.dump and json.load                                 *)

RECURSIVE JsonDump(_)
JsonDump(x) ==
    CASE x.t = "None" -> [j |-> "null"]
      [] x.t = "str"  -> [j |-> "string", v |-> x.v]
      [] x.t = "int"  -> [j |-> "number", v |-> x.v]
      [] x.t = "list" -> [j |-> "array", v |-> [i \in 1..Len(x.v) |-> JsonDump(x.v[i])]]
      [] x.t = "dict" -> [j |-> "object", v |-> [k \in DOMAIN x.v |-> JsonDump(x.v[k])]]

RECURSIVE JsonLoad(_)
JsonLoad(d) ==
    CASE d.j = "null"   -> None
      [] d.j = "string" -> Str(d.v)
      [] d.j = "number" -> PyInt(d.v)
      [] d.j = "array"  -> List([i \in 1..Len(d.v) |-> JsonLoad(d.v[i])])
      [] d.j = "object" -> Dict([k \in DOMAIN d.v |-> JsonLoad(d.v[k])])

-----------------------------------------------------------------------------
(* save_events_to_json                                                     *)

STORED_DATA == "./stored_data/"

\* The path built from the city alone
SnapshotPathCityOnly(city_name, date) == STORED_DATA \o "events_" \o city_name \o ".json"

SnapshotPath(city_name, date) ==
    STORED_DATA \o "events_" \o city_name \o "_" \o date \o ".json"

\* open(path, "w") and json.dump: the file is created or truncated.
WriteFile(fs, path, doc) ==
    [p \in DOMAIN fs \cup {path} |-> IF p = path THEN doc ELSE fs[p]]

\* The files after save_events_to_json(city_name, date, events_response).
SaveEventsToJson(fs, city_name, date, events_response) ==
    WriteFile(fs, SnapshotPath(city_name, date), JsonDump(events_response))

-----------------------------------------------------------------------------
(* save_events_to_db                                                       *)

\* ", ".join(names)
RECURSIVE JoinNames(_)
JoinNames(names) ==
    IF names = <<>> THEN ""
    ELSE IF Len(names) = 1 THEN names[1].v
    ELSE names[1].v \o ", " \o JoinNames(Tail(names))

\* The tuple bound to the INSERT for one event dict.
EventRow(event) ==
    [id          |-> Get(event, "event_id", Str("Unknown")),
     title       |-> Get(event, "title", Str("No Title")),
     date        |-> Get(event, "date", Str("No Date")),
     venue_name  |-> Get(Get(event, "venue", Dict(<<>>)), "name", Str("Unknown")),
     venue_link  |-> Get(Get(event, "venue", Dict(<<>>)), "url", None),
     artists     |-> Str(JoinNames(Get(event, "artists", List(<<>>)).v)),
     event_link  |-> Get(event, "event_url", None),
     flyer_image |-> Get(event, "flyer", None)]

\* A plain INSERT into a table that had no PRIMARY KEY
InsertPlain(table, row) == table \cup {row}

\* INSERT OR REPLACE INTO events: id is the PRIMARY KEY, so a row with the
\* same id is deleted before the new one is inserted.
InsertOrReplace(table, row) == {r \in table : r.id # row.id} \cup {row}

\* The table after save_events_to_db(event_list): one INSERT OR REPLACE per
\* event, in order, then commit.
RECURSIVE SaveEventsToDb(_, _)
SaveEventsToDb(table, event_list) ==
    IF event_list = <<>> THEN table
    ELSE SaveEventsToDb(InsertOrReplace(table, EventRow(Head(event_list))), Tail(event_list))

-----------------------------------------------------------------------------
(* data_manager: the combined archive                                      *)

\* save_data_to_json dumping event_data as it is, without the "events" key
SaveDataToJsonBare(arch, event_data) == <<JsonDump(event_data)>>

\* The archive after save_data_to_json(event_data): the whole document is
\* replaced by {"events": event_data}.
SaveDataToJson(arch, event_data) == <<JsonDump(Dict([events |-> event_data]))>>

\* What load_data_from_json returns.
LoadDataFromJson(arch) ==
    IF arch # <<>> THEN JsonLoad(arch[1]) ELSE Dict([events |-> List(<<>>)])

-----------------------------------------------------------------------------
(* fetch_events and the POST /get_events handler                           *)

Effect(op, by) == [op |-> op, by |-> by]

\* fetch_events without the try/except around int(city_id)
FetchEventsSearchUnguarded(resp) ==
    LET cid == FetchCityId(resp)
    IN  IF IsRaise(cid) THEN [next |-> FALSE, city_id |-> None, ret |-> cid]
        ELSE IF cid = None THEN [next |-> FALSE, city_id |-> None, ret |-> Dict(<<>>)]
        ELSE LET n == IntOf(cid)
             IN  IF IsRaise(n) THEN [next |-> FALSE, city_id |-> cid, ret |-> n]
                 ELSE [next |-> TRUE, city_id |-> n, ret |-> None]

\* fetch_events up to its first return: the area search has been answered
\* by resp. next says whether the event-listing query follows.
FetchEventsSearch(resp) ==
    LET cid == FetchCityId(resp)
    IN  IF IsRaise(cid) THEN [next |-> FALSE, city_id |-> None, ret |-> cid]
        ELSE IF cid = None THEN [next |-> FALSE, city_id |-> None, ret |-> Dict(<<>>)]
        ELSE LET n == IntOf(cid)
             IN  IF IsRaise(n)
                 THEN [next |-> FALSE, city_id |-> cid,
                       ret |-> IF n.exc = "ValueError" THEN Dict(<<>>) ELSE n]
                 ELSE [next |-> TRUE, city_id |-> n, ret |-> None]

\* fetch_events from the event-listing answer resp on: what it returns (or
\* raises), the files and the table it leaves, and its writes in order.
FetchEventsListing(resp, fs, table, city_name, date) ==
    LET quiet(r) == [ret |-> r, files |-> fs, db |-> table, effects |-> <<>>]
    IN  IF resp.status # HTTP_OK THEN quiet(Dict(<<>>))
        ELSE IF resp.body.t # "dict" THEN quiet(Dict(<<>>))
        ELSE LET event_listings == EventListings(resp.body)
             IN  IF IsRaise(event_listings) THEN quiet(event_listings)
                 ELSE LET events_list == NormalizeAll(event_listings.v)
                      IN  IF IsRaise(events_list) THEN quiet(events_list)
                          ELSE [ret     |-> events_list,
                                files   |-> SaveEventsToJson(fs, city_name, date, events_list),
                                db      |-> SaveEventsToDb(table, events_list.v),
                                effects |-> <<Effect("file", "fetch_events"),
                                              Effect("db", "fetch_events")>>]

\* event_details of the handler for one returned event
EventDetails(event) ==
    Dict(("Event ID" :> event.v["event_id"]) @@ ("Event Name" :> event.v["title"])
         @@ ("Date" :> event.v["date"]) @@ ("Venue Name" :> event.v["venue"].v["name"])
         @@ ("Venue Link" :> event.v["venue"].v["url"]) @@ ("Artists" :> event.v["artists"])
         @@ ("Event Link" :> event.v["event_url"]) @@ ("Flyer Image" :> event.v["flyer"]))

ERROR_TEXT == "Invalid API response format."

RenderTemplate(context) == [status |-> HTTP_OK, template |-> "index.html", context |-> context]

\* An exception leaving the view function: Flask answers 500.
ServerError == [status |-> 500]

\* get_events rendering its list without saving it
GetEventsRespondNoSave(events_response, fs, table, city, date) ==
    IF IsRaise(events_response)
    THEN [page |-> ServerError, files |-> fs, db |-> table, effects |-> <<>>]
    ELSE IF ~Truthy(events_response)
    THEN [page |-> RenderTemplate([events |-> List(<<>>), error |-> Str(ERROR_TEXT)]),
          files |-> fs, db |-> table, effects |-> <<>>]
    ELSE [page    |-> RenderTemplate(
                          [events |-> List([i \in 1..Len(events_response.v) |->
                                               EventDetails(events_response.v[i])]),
                           json_file |-> Str(SnapshotPath(city, date))]),
          files |-> fs, db |-> table, effects |-> <<>>]

\* get_events testing "events_response is None" where it tests
\* "not events_response": an empty answer takes the path of a list.
GetEventsRespondNoneCheck(events_response, fs, table, city, date) ==
    IF IsRaise(events_response)
    THEN [page |-> ServerError, files |-> fs, db |-> table, effects |-> <<>>]
    ELSE LET n == IF events_response.t = "list" THEN Len(events_response.v) ELSE 0
             event_list == List([i \in 1..n |-> EventDetails(events_response.v[i])])
         IN  [page    |-> RenderTemplate([events |-> event_list,
                                          json_file |-> Str(SnapshotPath(city, date))]),
              files   |-> SaveEventsToJson(fs, city, date, event_list),
              db      |-> SaveEventsToDb(table, event_list.v),
              effects |-> <<Effect("file", "get_events"), Effect("db", "get_events")>>]

\* get_events after fetch_events returned events_response (or raised): the
\* response, the files and the table it leaves, and its writes in order.
GetEventsRespond(events_response, fs, table, city, date) ==
    IF IsRaise(events_response)
    THEN [page |-> ServerError, files |-> fs, db |-> table, effects |-> <<>>]
    ELSE IF ~Truthy(events_response)
    THEN [page |-> RenderTemplate([events |-> List(<<>>), error |-> Str(ERROR_TEXT)]),
          files |-> fs, db |-> table, effects |-> <<>>]
    ELSE LET event_list == List([i \in 1..Len(events_response.v) |->
                                    EventDetails(events_response.v[i])])
         IN  [page    |-> RenderTemplate([events |-> event_list,
                                          json_file |-> Str(SnapshotPath(city, date))]),
              files   |-> SaveEventsToJson(fs, city, date, event_list),
              db      |-> SaveEventsToDb(table, event_list.v),
              effects |-> <<Effect("file", "get_events"), Effect("db", "get_events")>>]

-----------------------------------------------------------------------------
(* State machine of the web application                                    *)

Cities == {"Berlin"}

Dates == {"2024-05-01"}

NoReq == [city |-> "", date |-> ""]

NoArea == [status |-> 0, data_null |-> FALSE, n |-> 0, first |-> None]

NoValue == [t |-> "none"]

NoPage == [status |-> 0]

NoCall == [fn |-> "none"]

\* The results an area-search answer lists: none when "data" or "search" is
\* absent or null.
ResultsOf(resp) ==
    LET d == IF "data" \in DOMAIN resp.body.v THEN resp.body.v["data"] ELSE None
        l == IF d.t = "dict" /\ "search" \in DOMAIN d.v THEN d.v["search"] ELSE None
    IN  IF l.t = "list" THEN l.v ELSE <<>>

\* "data": null, the answer of a GraphQL server that failed
DataNull(resp) == "data" \in DOMAIN resp.body.v /\ resp.body.v["data"] = None

\* What the model keeps of an area-search answer: its status, whether its
\* "data" is null, how many results it lists and the id of the first.
AreaSummary(resp) ==
    [status    |-> resp.status,
     data_null |-> DataNull(resp),
     n         |-> Len(ResultsOf(resp)),
     first     |-> IF ResultsOf(resp) = <<>> THEN None ELSE ResultsOf(resp)[1].v["id"]]

\* After import: create_database() has created the empty table (events.db
\* is new), stored_data/ and data/ exist and are empty.
Init ==
    /\ pc = "idle"
    /\ req = NoReq
    /\ area = NoArea
    /\ city_id = None
    /\ ret = NoValue
    /\ page = NoPage
    /\ log = <<>>
    /\ db = {}
    /\ files = <<>>
    /\ archive = <<>>
    /\ call = NoCall
    /\ written = <<>>

\* POST /get_events arrives: get_events reads the form and calls
\* fetch_events, which calls fetch_city_id, which posts the area search.
Submit(city, date) ==
    /\ pc = "idle"
    /\ pc' = "search"
    /\ req' = [city |-> city, date |-> date]
    /\ area' = NoArea
    /\ city_id' = None
    /\ ret' = NoValue
    /\ page' = NoPage
    /\ log' = <<Effect("search", "fetch_city_id")>>
    /\ UNCHANGED <<db, files, archive, call, written>>

\* The area search is answered. Either fetch_events returns (or raises) and
\* get_events responds, or fetch_events posts the event-listing query.
AreaSearch(resp) ==
    /\ pc = "search"
    /\ area' = AreaSummary(resp)
    /\ \E f \in {FetchEventsSearch(resp)} :
           /\ city_id' = f.city_id
           /\ IF f.next
              THEN /\ pc' = "listing"
                   /\ log' = Append(log, Effect("listing", "fetch_events"))
                   /\ UNCHANGED <<ret, page, db, files>>
              ELSE \E g \in {GetEventsRespond(f.ret, files, db, req.city, req.date)} :
                       /\ pc' = "idle"
                       /\ ret' = f.ret
                       /\ page' = g.page
                       /\ files' = g.files
                       /\ db' = g.db
                       /\ log' = log \o g.effects
    /\ UNCHANGED <<req, archive, call, written>>

\* The event-listing query is answered: fetch_events normalizes, persists
\* and returns; get_events builds its list, persists and responds.
EventListing(resp) ==
    /\ pc = "listing"
    /\ \E f \in {FetchEventsListing(resp, files, db, req.city, req.date)} :
       \E g \in {GetEventsRespond(f.ret, f.files, f.db, req.city, req.date)} :
           /\ pc' = "idle"
           /\ ret' = f.ret
           /\ page' = g.page
           /\ files' = g.files
           /\ db' = g.db
           /\ log' = log \o f.effects \o g.effects
    /\ UNCHANGED <<req, area, city_id, archive, call, written>>

Next ==
    \/ \E city \in Cities, date \in Dates : Submit(city, date)
    \/ \E resp \in SearchResponses : AreaSearch(resp)
    \/ \E resp \in ListingResponses : EventListing(resp)

Spec == Init /\ [][Next]_vars

-----------------------------------------------------------------------------
(* The persistence functions called on their own                           *)

\* Event dicts passed to save_events_to_db: normalized events (three ids,
\* each under two titles and with none, one or MaxArtists artists) and the
\* empty dict.
StoreEvent(id, title, k) ==
    Dict([event_id |-> Str(id), title |-> Str(title), date |-> Str("2024-05-01T00:00"),
          event_url |-> Str(RA_ORIGIN \o "/events/" \o id), flyer |-> None,
          venue |-> Dict([name |-> Str("v1"), url |-> None]),
          artists |-> List([i \in 1..k |-> Str(ArtistNames[i])])])

StoreEvents ==
    {StoreEvent(id, v[1], v[2]) :
        id \in {"e1", "e2", "e3"}, v \in {<<"t1", 0>>, <<"t2", 1>>, <<"t2", MaxArtists>>}}
    \cup {Dict(<<>>)}

\* The id under which save_events_to_db stores an event dict.
EventKey(event) == Get(event, "event_id", Str("Unknown")).v

\* The history of writes after event_list has been stored.
RECURSIVE Record(_, _)
Record(w, event_list) ==
    IF event_list = <<>> THEN w
    ELSE LET e == Head(event_list)
             k == EventKey(e)
         IN  Record([i \in DOMAIN w \cup {k} |-> IF i = k THEN e ELSE w[i]], Tail(event_list))

\* save_events_to_db(event_list)
CallSaveEventsToDb(event_list) ==
    /\ db' = SaveEventsToDb(db, event_list)
    /\ written' = Record(written, event_list)
    /\ call' = [fn |-> "save_events_to_db", rows |-> Len(event_list)]
    /\ UNCHANGED <<pc, req, area, city_id, ret, page, log, files, archive>>

NextStore == \E event_list \in SeqsUpTo(StoreEvents, MaxEvents) : CallSaveEventsToDb(event_list)

SpecStore == Init /\ [][NextStore]_vars

\* Cities with dates, and event lists, passed to save_events_to_json.
SnapshotQueries ==
    {<<"Berlin", "2024-05-01">>, <<"Berlin", "2024-05-02">>, <<"Paris", "2024-05-01">>}

SnapshotEvents == {StoreEvent("e1", "t1", 1), StoreEvent("e2", "t2", 0)}

\* save_events_to_json(city_name, date, events_response)
CallSaveEventsToJson(city_name, date, events_response) ==
    /\ files' = SaveEventsToJson(files, city_name, date, events_response)
    /\ call' = [fn |-> "save_events_to_json", city_name |-> city_name, date |-> date,
                events_response |-> events_response,
                result |-> Str(SnapshotPath(city_name, date))]
    /\ UNCHANGED <<pc, req, area, city_id, ret, page, log, db, archive, written>>

NextSnapshot ==
    \E query \in SnapshotQueries, q \in SeqsUpTo(SnapshotEvents, MaxEvents) :
        CallSaveEventsToJson(query[1], query[2], List(q))

SpecSnapshot == Init /\ [][NextSnapshot]_vars

\* save_data_to_json(event_data)
CallSaveDataToJson(event_data) ==
    /\ archive' = SaveDataToJson(archive, event_data)
    /\ call' = [fn |-> "save_data_to_json", event_data |-> event_data]
    /\ UNCHANGED <<pc, req, area, city_id, ret, page, log, db, files, written>>

\* load_data_from_json()
CallLoadDataFromJson ==
    /\ call' = [fn |-> "load_data_from_json", result |-> LoadDataFromJson(archive)]
    /\ UNCHANGED <<pc, req, area, city_id, ret, page, log, db, files, archive, written>>

\* Event dicts passed to save_data_to_json.
ArchiveEvents ==
    {StoreEvent(id, title, 1) : id \in {"e1", "e2"}, title \in {"t1", "t2"}}
    \cup {Dict([event_id |-> Str("e1")]), Dict([title |-> None]), Dict(<<>>)}

NextArchive ==
    \/ \E q \in SeqsUpTo(ArchiveEvents, MaxEvents) : CallSaveDataToJson(List(q))
    \/ CallLoadDataFromJson

SpecArchive == Init /\ [][NextArchive]_vars

-----------------------------------------------------------------------------
(* The pure functions on their own                                         *)

\* Every shape of one listing item: each field of the event absent, null or
\* present; the event itself absent or null.
Optional(S) == {Absent, None} \cup S

VenueObjects ==
    {VenueObject(name, url) : name \in {Absent, Str("v1")},
                              url \in Optional({Str("/clubs/1")})}

EventObjects ==
    {EventObject(id, title, date, url, flyer, venue, artists) :
        id \in {Absent, Str("e1")},
        title \in Optional({Str("t1")}),
        date \in Optional({Str("2024-05-01T00:00")}),
        url \in Optional({Str("/events/1")}),
        flyer \in {Absent, Str("/flyer.jpg")},
        venue \in Optional(VenueObjects),
        artists \in Optional(ArtistLists)}

AllItems == {ListingItem(event) : event \in Optional(EventObjects)}

\* Normalization is about to run on one item.
InitNormalize ==
    /\ Init!1 /\ Init!2 /\ Init!3 /\ Init!4 /\ Init!5 /\ Init!6 /\ Init!7
    /\ Init!8 /\ Init!9 /\ Init!10 /\ Init!12
    /\ \E item \in AllItems : call = [fn |-> "normalize", item |-> item, result |-> NoValue]

\* The body of the loop of fetch_events runs on the item.
Normalize ==
    /\ call.fn = "normalize"
    /\ call.result = NoValue
    /\ call' = [call EXCEPT !.result = NormalizeItem(call.item)]
    /\ UNCHANGED <<pc, req, area, city_id, ret, page, log, db, files, archive, written>>

SpecNormalize == InitNormalize /\ [][Normalize]_vars

\* fetch_city_id is about to receive one area-search answer.
InitCityId ==
    /\ Init!1 /\ Init!2 /\ Init!3 /\ Init!4 /\ Init!5 /\ Init!6 /\ Init!7
    /\ Init!8 /\ Init!9 /\ Init!10 /\ Init!12
    /\ \E resp \in [status : {HTTP_OK} \cup ErrorStatuses, body : SearchBodies] :
          call = [fn |-> "fetch_city_id", resp |-> resp, result |-> NoValue]

\* fetch_city_id returns (or raises).
CallFetchCityId ==
    /\ call.fn = "fetch_city_id"
    /\ call.result = NoValue
    /\ call' = [call EXCEPT !.result = FetchCityId(call.resp)]
    /\ UNCHANGED <<pc, req, area, city_id, ret, page, log, db, files, archive, written>>

SpecCityId == InitCityId /\ [][CallFetchCityId]_vars

-----------------------------------------------------------------------------
(* Properties                                                              *)

\* The value of field k of the dict d, or default when d has no such key.
Field(d, k, default) == IF k \in DOMAIN d.v THEN d.v[k] ELSE default

\* The area ids of the model that Python's int() accepts.
IntegerLiterals == {"34", " +3_4 "}

Sent(op) == \E i \in 1..Len(log) : log[i].op = op

C8_MalformedAreaId ==
    [][(/\ pc = "search" /\ pc' # "search"
        /\ area'.status = HTTP_OK /\ area'.n > 0
        /\ area'.first.v \notin IntegerLiterals)
       => /\ pc' = "idle"
          /\ ret' = Dict(<<>>)
          /\ page'.status = HTTP_OK
          /\ db' = db
          /\ files' = files
          /\ log' = <<Effect("search", "fetch_city_id")>>]_vars

\* The area search resolved to "3__4" while the table held rows.
C8_Witness ==
    /\ pc = "idle" /\ area.status = HTTP_OK /\ area.first = Str("3__4")
    /\ ret = Dict(<<>>) /\ city_id = Str("3__4") /\ db # {} /\ DOMAIN files # {}

\* C9: when fetch_events returns {} or [], the handler renders events = []
\* with the error set and writes nothing itself; when it returns a
\* non-empty list, the handler renders one entry per event, in order, and
\* no error.
C9_HandlerRendering ==
    (pc = "idle" /\ ret # NoValue /\ ~IsRaise(ret)) =>
        IF ret \in {Dict(<<>>), List(<<>>)}
        THEN /\ page = [status |-> 200, template |-> "index.html",
                        context |-> [events |-> List(<<>>),
                                     error |-> Str("Invalid API response format.")]]
             /\ \A i \in 1..Len(log) : log[i].by # "get_events"
        ELSE /\ page.status = 200
             /\ "error" \notin DOMAIN page.context
             /\ page.context.events.t = "list"
             /\ Len(page.context.events.v) = Len(ret.v)
             /\ \A i \in 1..Len(ret.v) :
                   LET shown == page.context.events.v[i].v
                       event == ret.v[i].v
                   IN  /\ shown["Event ID"] = event["event_id"]
                       /\ shown["Event Name"] = event["title"]
                       /\ shown["Date"] = event["date"]
                       /\ shown["Venue Name"] = event["venue"].v["name"]
                       /\ shown["Venue Link"] = event["venue"].v["url"]
                       /\ shown["Artists"] = event["artists"]
                       /\ shown["Event Link"] = event["event_url"]
                       /\ shown["Flyer Image"] = event["flyer"]

\* fetch_events returned the empty list of a 200 listing without events,
\* after writing its snapshot, and the handler rendered the error.
C9_Witness ==
    /\ pc = "idle" /\ ret = List(<<>>) /\ "error" \in DOMAIN page.context
    /\ Sent("file") /\ db # {}

\* The effects a request may log, by who causes them.
SearchSent == Effect("search", "fetch_city_id")

ListingSent == Effect("listing", "fetch_events")

FetchWrites == <<Effect("file", "fetch_events"), Effect("db", "fetch_events")>>

HandlerWrites == <<Effect("file", "get_events"), Effect("db", "get_events")>>

\* C5 as stated: a submission that rendered its events made exactly one
\* upstream call, then one store write, then one file write.
C5_OneCallOneStoreOneFile ==
    (pc = "idle" /\ page.status = 200 /\ "error" \notin DOMAIN page.context) =>
        [i \in 1..Len(log) |->
            IF log[i].op \in {"search", "listing"} THEN "upstream" ELSE log[i].op]
        = <<"upstream", "db", "file">>

\* C5 amended: a submission sends the area search and, only when an integer
\* area id was resolved, one event-listing query after it; when that is
\* answered 200 with a listing that normalizes, fetch_events writes the
\* snapshot file and then the store, and when the list is not empty the
\* handler writes the snapshot file and then the store once more. Nothing
\* else is sent or written, and all of it before the response.
C5_CallsThenFileThenStore ==
    /\ pc = "search" => log = <<SearchSent>>
    /\ pc = "listing" => log = <<SearchSent, ListingSent>> /\ city_id.t = "int"
    /\ (pc = "idle" /\ page # NoPage) =>
          \/ /\ log = <<SearchSent>>
             /\ city_id.t # "int"
             /\ ret = Dict(<<>>) \/ IsRaise(ret)
          \/ /\ log = <<SearchSent, ListingSent>>
             /\ city_id.t = "int"
             /\ ret = Dict(<<>>) \/ IsRaise(ret)
          \/ /\ log = <<SearchSent, ListingSent>> \o FetchWrites
             /\ ret = List(<<>>)
          \/ /\ log = <<SearchSent, ListingSent>> \o FetchWrites \o HandlerWrites
             /\ ret.t = "list" /\ ret.v # <<>>
             /\ page.status = 200

\* A request went through both upstream calls and both pairs of writes.
C5_Witness ==
    /\ pc = "idle" /\ Len(log) = 6 /\ ret.t = "list" /\ Len(ret.v) = 2

\* C10: a request whose fetch returned a non-empty list ends with the
\* snapshot file holding the normalized records and with a table in which
\* every row added or replaced is the row of a returned event.
C10_HandlerKeepsWhatFetchPersisted ==
    [][(pc = "listing" /\ ret'.t = "list" /\ ret'.v # <<>>)
       => /\ files'[SnapshotPath(req.city, req.date)] = JsonDump(ret')
          /\ \A r \in db' \ db :
                \E i \in 1..Len(ret'.v) :
                    /\ r.id = ret'.v[i].v["event_id"]
                    /\ r.title = ret'.v[i].v["title"]]_vars

\* ", "-separated names, built from the right
RECURSIVE CommaSeparated(_)
CommaSeparated(names) ==
    IF names = <<>> THEN ""
    ELSE IF Len(names) = 1 THEN names[1].v
    ELSE CommaSeparated(SubSeq(names, 1, Len(names) - 1)) \o ", " \o names[Len(names)].v

\* C2: the table holds at most one row per event id; every id ever written
\* has its row (none is removed) and no other id has one; and each row
\* carries the fields of the most recent write of its id, the artists as
\* one ", "-separated string.
C2_LastWriteWins ==
    /\ \A r1, r2 \in db : r1.id = r2.id => r1 = r2
    /\ {r.id.v : r \in db} = DOMAIN written
    /\ \A r \in db :
          LET e == written[r.id.v]
              venue == Field(e, "venue", Dict(<<>>))
          IN  /\ r.title = Field(e, "title", Str("No Title"))
              /\ r.date = Field(e, "date", Str("No Date"))
              /\ r.venue_name = Field(venue, "name", Str("Unknown"))
              /\ r.venue_link = Field(venue, "url", None)
              /\ r.artists = Str(CommaSeparated(Field(e, "artists", List(<<>>)).v))
              /\ r.event_link = Field(e, "event_url", None)
              /\ r.flyer_image = Field(e, "flyer", None)

\* One call stored two events under the id e1 and the table holds the one
\* row of the second, next to a row written earlier.
C2_Witness ==
    /\ call = [fn |-> "save_events_to_db", rows |-> 2]
    /\ Cardinality(db) = 2
    /\ \E r \in db : r.id = Str("e1") /\ r.title = Str("t2") /\ r.artists # Str("a1")
    /\ \E r \in db : r.id = Str("Unknown")

\* C3 as stated: the snapshot file holds the envelope {"events": [...]}
\* around the supplied records.
C3_SnapshotEnvelope ==
    call.fn = "save_events_to_json" =>
        /\ call.result.v \in DOMAIN files
        /\ files[call.result.v] =
              [j |-> "object", v |-> [events |-> JsonDump(call.events_response)]]

\* C3 amended: save_events_to_json(city, date, events) writes the file
\* stored_data/events_{city}_{date}.json whose content is the JSON array of
\* the supplied records, in order and without an envelope, replacing what
\* the file held and leaving every other snapshot file as it was.
C3_SnapshotArray ==
    [][call'.fn = "save_events_to_json" =>
        LET path == "./stored_data/events_" \o call'.city_name \o "_" \o call'.date \o ".json"
        IN  /\ call'.result = Str(path)
            /\ DOMAIN files' = DOMAIN files \cup {path}
            /\ files'[path].j = "array"
            /\ JsonLoad(files'[path]) = call'.events_response
            /\ \A p \in DOMAIN files : p # path => files'[p] = files[p]]_vars

\* Two records were written for Berlin on 2024-05-01 while the snapshots of
\* Paris and of the next day were there.
C3_Witness ==
    /\ call.fn = "save_events_to_json"
    /\ call.city_name = "Berlin" /\ call.date = "2024-05-01"
    /\ Len(call.events_response.v) = 2
    /\ "./stored_data/events_Berlin_2024-05-01.json" \in DOMAIN files
    /\ "./stored_data/events_Paris_2024-05-01.json" \in DOMAIN files
    /\ "./stored_data/events_Berlin_2024-05-02.json" \in DOMAIN files

\* A field of an upstream object is missing: absent or null.
Missing(obj, k) == k \notin DOMAIN obj.v \/ obj.v[k] = None

\* C4: whichever of title, date, venue and artists an event item misses,
\* normalization does not fail and yields the defaults for the missing
\* fields and the upstream values for the present ones.
C4_DefaultsForMissing ==
    (/\ call.fn = "normalize" /\ call.result # NoValue
     /\ "event" \in DOMAIN call.item.v /\ call.item.v["event"].t = "dict") =>
        LET event == call.item.v["event"]
            info  == call.result
        IN  /\ ~IsRaise(info)
            /\ info.v["title"] =
                  IF Missing(event, "title") THEN Str("No Title") ELSE event.v["title"]
            /\ info.v["date"] =
                  IF Missing(event, "date") THEN Str("No Date") ELSE event.v["date"]
            /\ Missing(event, "venue") =>
                  info.v["venue"] = Dict([name |-> Str("Unknown"), url |-> None])
            /\ ~Missing(event, "venue") /\ ~Missing(event.v["venue"], "name") =>
                  info.v["venue"].v["name"] = event.v["venue"].v["name"]
            /\ info.v["artists"] =
                  IF Missing(event, "artists") THEN List(<<>>)
                  ELSE List([i \in 1..Len(event.v["artists"].v) |->
                                event.v["artists"].v[i].v["name"]])

\* C4 where it holds: the same for fields that are absent (the key is not
\* there); a null is not replaced.
C4_DefaultsForAbsent ==
    (/\ call.fn = "normalize" /\ call.result # NoValue
     /\ "event" \in DOMAIN call.item.v /\ call.item.v["event"].t = "dict"
     /\ \A k \in {"title", "date", "venue", "artists"} :
           k \in DOMAIN call.item.v["event"].v => call.item.v["event"].v[k] # None) =>
        C4_DefaultsForMissing

\* C6: load_data_from_json returns {"events": []} when there is no file,
\* and right after save_data_to_json(L) it returns {"events": L}, whatever
\* the file held before the save.
C6_ArchiveRoundTrip ==
    [][call'.fn = "load_data_from_json" =>
        /\ archive = <<>> => call'.result = Dict([events |-> List(<<>>)])
        /\ call.fn = "save_data_to_json" =>
              call'.result = Dict([events |-> call.event_data])]_vars

\* A load returned the two events of the save before it.
C6_Witness ==
    /\ call.fn = "load_data_from_json"
    /\ call.result.t = "dict"
    /\ call.result.v["events"] = List(<<StoreEvent("e2", "t1", 1), Dict([title |-> None])>>)

====
